---- MODULE Spec2Model ----
(***************************************************************************)
(* imflow: image dataset builders (imflow/imflow.py).                      *)
(*                                                                         *)
(* A behaviour is one invocation of one public function of the module:     *)
(* image_dataset_from_directory, image_dataset_from_csv,                   *)
(* image_dataset_from_dataframe, image_dataset_from_paths_and_labels (with *)
(* the call chain directory -> paths_and_labels and csv -> dataframe ->    *)
(* paths_and_labels that the code implements), optionally repeated with    *)
(* the same arguments, or one invocation of load_image on one file.        *)
(*                                                                         *)
(* The helpers of imflow/utils (dataset_utils, image_utils) are not part   *)
(* of the available source; they are modelled from the design document and *)
(* are marked as such where they are defined.                              *)
(***************************************************************************)
EXTENDS Integers, Sequences, FiniteSets, TLC

(***************************************************************************)
(* Bounds of the model.                                                    *)
(***************************************************************************)
\* largest number of image paths in a corpus
MaxPaths == 3
\* largest width of a rank-2 label matrix
MaxWidth == 2
\* largest integer class id in a rank-1 label vector
MaxLabel == 2
\* seeds are drawn from 1..MaxSeed (by the caller or by np.random.randint)
MaxSeed == 2
\* number of times the same call is made in a row
MaxCalls == 2
\* number of tokens in a path handed to load_image
MaxPathLen == 2
\* largest height/width of a source image
MaxSrc == 2
\* largest height/width of the requested image_size
MaxTgt == 2

\* Python's None for the integer-valued arguments (seed, batch_size)
None == 0 - 1

Range(s) == {s[i] : i \in DOMAIN s}

RECURSIVE SeqSum(_)
SeqSum(s) == IF s = <<>> THEN 0 ELSE Head(s) + SeqSum(Tail(s))

SetMax(S) == CHOOSE m \in S : \A x \in S : x <= m

(***************************************************************************)
(* load_image and the array decoders.                                      *)
(*                                                                         *)
(* A path is a sequence of tokens; regex_full_match(path, '.*\.dcm.*')     *)
(* holds when the token ".dcm" occurs anywhere in it.  A file is described *)
(* by what its decoder yields: number of frames (DICOM), array rank        *)
(* (.npy/.npz), height, width and channel count.  A tensor is described by *)
(* its run-time shape.                                                     *)
(***************************************************************************)
PathTokens == {".dcm", ".npz", ".npy", ".png"}

Paths == UNION {[1..n -> PathTokens] : n \in 1..MaxPathLen}

\* what the decoder of each branch can yield for a file: a DICOM file has
\* one or more frames of 1 (monochrome) or 3 (colour) samples per pixel; an
\* array file holds an array of rank 2 or 3; a raster file is decoded to
\* the requested channel count whatever it holds
Files(branch) ==
  [frames : IF branch = "dicom" THEN 1..2 ELSE {1},
   ndim : IF branch \in {"npz", "npy"} THEN 2..3 ELSE {3},
   height : 1..MaxSrc, width : 1..MaxSrc,
   channels : IF branch \in {"dicom", "raster"} THEN {1, 3} ELSE {1}]

ImageSizes == (1..MaxTgt) \X (1..MaxTgt)

ChannelCounts == {1, 3, 4}

\* how load_image is executed: traced into a graph by Dataset.map (as
\* paths_and_labels_to_dataset does) or called eagerly
ExecModes == {"graph", "eager"}

regex_full_match(path, token) == \E i \in DOMAIN path : path[i] = token

\* a tensor also carries which decode branch produced it and whether the
\* resize step filled part of it with padding instead of source content
Failed(why) == [ok |-> FALSE, why |-> why, shape |-> <<>>, padded |-> FALSE, branch |-> ""]

Tensor(shape) == [ok |-> TRUE, why |-> "", shape |-> shape, padded |-> FALSE, branch |-> ""]

\* the tensor as produced (or the failure as raised) inside one branch
Via(branch, t) == [t EXCEPT !.branch = branch]

\* a failure raised while working on t
FailedOn(t, why) == Via(t.branch, Failed(why))

\* numpy_channels: only a rank-2 array reaches the return statement; any
\* other rank falls off the end of the function (None), which
\* tf.numpy_function cannot convert to the declared float32 output.
numpy_channels(file, num_channels) ==
  IF file.ndim = 2
    THEN Tensor(<<file.height, file.width,
                  IF num_channels = 3 THEN 3
                  ELSE IF num_channels = 4 THEN 4 ELSE 1>>)
    ELSE Failed("numpy_function returned None")

\* tf.image.resize / resize_with_pad of a rank-3 tensor: height and width
\* become the target's, the channel axis is kept.
Resized(shape, image_size) == <<image_size[1], image_size[2], shape[3]>>

\* img.set_shape((h, w, c)): in a traced graph the decoders' outputs have no
\* static channel dimension, so set_shape only records the static shape and
\* checks nothing at run time; on an eager tensor it raises ValueError when
\* the shape differs.
set_shape(t, shape, mode) ==
  IF mode = "eager" /\ t.shape # shape
    THEN FailedOn(t, "set_shape: incompatible shape")
    ELSE t

\* the source and the target have the same aspect ratio
SameAspect(shape, image_size) == shape[1] * image_size[2] = shape[2] * image_size[1]

\* the resize step of the four branches: resize_with_crop_or_pad takes no
\* `method` keyword, so the call with method=interpolation raises TypeError;
\* otherwise the array branches call resize_with_pad, which letterboxes a
\* source of another aspect ratio, and the DICOM and raster branches call
\* resize, which stretches the source over the whole target.
ResizeStep(t, image_size, crop_to_aspect_ratio) ==
  IF ~t.ok THEN t
  ELSE IF crop_to_aspect_ratio
    THEN FailedOn(t, "TypeError: resize_with_crop_or_pad got method")
    ELSE [t EXCEPT !.shape = Resized(t.shape, image_size),
                   !.padded = t.branch \in {"npz", "npy"}
                              /\ ~SameAspect(t.shape, image_size)]

\* the DICOM branch up to the channel replication
DicomDecode(file, num_channels) ==
  IF file.frames # 1
    THEN Failed("Multiframe DICOM files are not supported")
    ELSE Tensor(<<file.height, file.width,
                  IF num_channels = 3 THEN 3 * file.channels
                  ELSE IF num_channels = 4 THEN 4 * file.channels
                  ELSE file.channels>>)

\* tf.image.decode_image(channels=num_channels, expand_animations=False)
RasterDecode(file, num_channels) ==
  Tensor(<<file.height, file.width, num_channels>>)

\* an if/elif chain that tries the array patterns before the DICOM pattern
Branch_ArraysFirst(path) ==
  IF regex_full_match(path, ".npz") THEN "npz"
  ELSE IF regex_full_match(path, ".npy") THEN "npy"
  ELSE IF regex_full_match(path, ".dcm") THEN "dicom"
  ELSE "raster"

\* the branch load_image takes, first match in the order of the if/elif chain
Branch(path) ==
  IF regex_full_match(path, ".dcm") THEN "dicom"
  ELSE IF regex_full_match(path, ".npz") THEN "npz"
  ELSE IF regex_full_match(path, ".npy") THEN "npy"
  ELSE "raster"

Decoded(path, file, num_channels) ==
  CASE Branch(path) = "dicom" -> Via("dicom", DicomDecode(file, num_channels))
    [] Branch(path) = "npz" -> Via("npz", numpy_channels(file, num_channels))
    [] Branch(path) = "npy" -> Via("npy", numpy_channels(file, num_channels))
    [] OTHER -> Via("raster", RasterDecode(file, num_channels))

load_image(path, file, image_size, num_channels, crop_to_aspect_ratio, mode) ==
  LET t == ResizeStep(Decoded(path, file, num_channels), image_size,
                      crop_to_aspect_ratio)
  IN IF ~t.ok THEN t
     ELSE set_shape(t, <<image_size[1], image_size[2], num_channels>>, mode)

(***************************************************************************)
(* Arguments of the dataset builders.                                      *)
(*                                                                         *)
(* Image paths are opaque: a corpus of n files is <<1, ..., n>> in the     *)
(* caller's (or the directory's sorted, or the table's row) order.         *)
(* labels is None, a non-sequence value, the token "inferred" (directory   *)
(* entry only), or a list: rank 1 (one class id per sample) or rank 2 (one *)
(* 0/1 row per sample).  A validation fraction is <<numerator,             *)
(* denominator>>.                                                          *)
(***************************************************************************)
\* largest number of samples in the label-focused inputs
MaxRows == 2
\* largest number of entries (rows x width) of a rank-2 label matrix
MaxCells == 4

\* program constants
DefaultBatchSize == 32
ShuffleFactor == 8
DefaultShuffleBuffer == 1024

Entries == {"directory", "csv", "dataframe", "paths_and_labels"}

LabelModes == {"int", "categorical", "binary", "multi_class", "multi_label",
               "None", "custom"}

ColorModes == {"rgb", "rgba", "grayscale", "cmyk"}

Subsets == {"None", "training", "validation", "both"}

NoSplit == <<0, 1>>

Fractions == {<<1, 4>>, <<1, 2>>, <<3, 4>>}

Seeds == 1..MaxSeed

Corpus(n) == [i \in 1..n |-> i]

LabelsNone == [kind |-> "none", rank |-> 0, dtype |-> "int", val |-> <<>>]

LabelsScalar == [kind |-> "scalar", rank |-> 0, dtype |-> "int", val |-> <<>>]

LabelsInferred == [kind |-> "inferred", rank |-> 0, dtype |-> "int", val |-> <<>>]

LabelList(rank, val) == [kind |-> "list", rank |-> rank, dtype |-> "int", val |-> val]

\* every label list for n samples
LabelLists(n) ==
  {LabelList(1, v) : v \in [1..n -> 0..MaxLabel]}
  \cup (IF n = 0 THEN {}
        ELSE UNION {{LabelList(2, m) : m \in [1..n -> [1..w -> 0..1]]} :
                    w \in {x \in 1..MaxWidth : n * x <= MaxCells}})

\* class ids alternate over the corpus
AlternatingLabels(n) == LabelList(1, [i \in 1..n |-> (i - 1) % 2])

\* the class of each file of a directory, in sorted path order: class
\* sub-directories are visited in order, so the ids are 0, .., k-1 in
\* non-decreasing order
ClassLayouts(n) ==
  {v \in [1..n -> 0..MaxLabel] :
     /\ n > 0 => v[1] = 0
     /\ \A i \in 1..(n - 1) : v[i + 1] \in {v[i], v[i] + 1}}

(***************************************************************************)
(* numpy views of a label value (np.array(labels)).                        *)
(***************************************************************************)
ndim(labels) ==
  IF labels.kind # "list" THEN 0
  ELSE IF labels.val = <<>> THEN 1 ELSE labels.rank

\* the set of entries of the array
Entries1(labels) ==
  IF ndim(labels) = 1 THEN Range(labels.val)
  ELSE UNION {Range(labels.val[i]) : i \in DOMAIN labels.val}

\* labels.shape[1] of a rank-2 array
Width(labels) == Len(labels.val[1])

\* np.max(np.sum(labels, axis=1)) of a rank-2 array
MaxRowSum(labels) == SetMax({SeqSum(labels.val[i]) : i \in DOMAIN labels.val})

\* np.expand_dims(labels, axis=-1) of a rank-1 array
expand_dims(labels) ==
  [labels EXCEPT !.rank = 2, !.val = [i \in DOMAIN labels.val |-> <<labels.val[i]>>]]

\* labels.astype(float): every entry keeps its numeric value as a float
astype_float(labels) == [labels EXCEPT !.dtype = "float"]

(***************************************************************************)
(* Errors.                                                                 *)
(***************************************************************************)
NoError == [type |-> "", site |-> ""]

ValueError(site) == [type |-> "ValueError", site |-> site]

UnboundLocalError(site) == [type |-> "UnboundLocalError", site |-> site]

\* the ValueErrors the design calls InvalidArgument
InvalidArgumentSites == {"labels", "class_names", "label_mode", "path_col",
                         "label_col", "color_mode", "validation_split",
                         "labels_rank", "binary_classes", "multi_rank",
                         "multi_width", "multi_class_sum"}

\* the ValueErrors the design calls EmptyDataset
EmptyDatasetSites == {"no_training_images", "no_validation_images", "no_images"}

\* num_classes before any assignment
Unbound == 0 - 2

(***************************************************************************)
(* Helpers of imflow/utils, modelled from the design document.             *)
(***************************************************************************)
\* the seeded permutation index_directory applies to the sorted file list
Shuffle(s, seed) ==
  IF s = <<>> THEN s
  ELSE [i \in 1..Len(s) |-> s[((i - 1 + seed) % Len(s)) + 1]]

\* dataset_utils.index_directory: the files found, in sorted order, with
\* their labels (inferred from the class sub-directories, or the caller's
\* list, or None), both permuted by the seed when shuffle is set
index_directory(files, classes, labels, label_mode, shuffle, seed) ==
  LET found == IF labels.kind = "inferred" THEN LabelList(1, classes) ELSE labels
      order == IF shuffle THEN Shuffle(files, seed) ELSE files
      perm(l) == IF l.kind # "list" THEN l
                 ELSE [l EXCEPT !.val = IF shuffle THEN Shuffle(l.val, seed) ELSE l.val]
  IN [image_paths |-> order, labels |-> perm(found)]

\* dataset_utils.check_validation_split_arg: a fraction without a subset or a
\* subset without a fraction is rejected.  The design also names a
\* shuffle/seed consistency rule without fixing it; `strict` stands for that
\* rule rejecting a split requested without a seed.
check_validation_split_arg(validation_split, subset, shuffle, seed, strict) ==
  IF (validation_split = NoSplit) # (subset = "None") THEN FALSE
  ELSE IF validation_split # NoSplit /\ seed = None /\ strict THEN FALSE
  ELSE TRUE

\* number of validation samples of a corpus of n samples
NumVal(n, validation_split) == (n * validation_split[1]) \div validation_split[2]

\* dataset_utils.get_training_or_validation_split on one list: contiguous
\* slices of the list as given, validation taken from the end
SplitSeq(samples, validation_split, subset) ==
  LET n == Len(samples)
      k == NumVal(n, validation_split)
  IN IF validation_split = NoSplit THEN samples
     ELSE IF subset = "training" THEN SubSeq(samples, 1, n - k)
     ELSE SubSeq(samples, n - k + 1, n)

get_training_or_validation_split(image_paths, labels, validation_split, subset) ==
  [image_paths |-> SplitSeq(image_paths, validation_split, subset),
   labels |-> IF labels.kind # "list" THEN labels
              ELSE [labels EXCEPT !.val = SplitSeq(labels.val, validation_split, subset)]]

(***************************************************************************)
(* image_dataset_from_paths_and_labels, by region of the function.         *)
(***************************************************************************)
\* the label modes the label_mode check of paths_and_labels lets through
AcceptedLabelModes == {"int", "categorical", "multi_label", "binary", "None"}

\* the label modes the label_mode check of the directory entry lets through
DirectoryLabelModes == {"int", "categorical", "multi_class", "multi_label",
                        "binary", "None"}

\* color_mode -> num_channels (0: rejected)
NumChannels(color_mode) ==
  CASE color_mode = "rgb" -> 3
    [] color_mode = "rgba" -> 4
    [] color_mode = "grayscale" -> 1
    [] OTHER -> 0

\* the shape checks of the labels against label_mode; labels come back
\* normalised (binary: trailing axis added, cast to float)
CheckLabels(labels, label_mode) ==
  LET ok(l) == [err |-> NoError, labels |-> l]
      bad(site) == [err |-> ValueError(site), labels |-> labels]
  IN IF label_mode \in {"int", "categorical"} /\ ndim(labels) > 1
       THEN bad("labels_rank")
     ELSE IF label_mode = "binary"
       THEN LET l2 == IF ndim(labels) < 2 THEN expand_dims(labels) ELSE labels
            IN IF Cardinality(Entries1(labels)) # 2 THEN bad("binary_classes")
               ELSE ok(astype_float(l2))
     ELSE IF label_mode \in {"multi_class", "multi_label"}
       THEN IF ndim(labels) < 2 THEN bad("multi_rank")
            ELSE IF Width(labels) < 2 THEN bad("multi_width")
            ELSE IF label_mode = "multi_class" /\ MaxRowSum(labels) > 1
              THEN bad("multi_class_sum")
            ELSE ok(labels)
     ELSE ok(labels)

\* num_classes from the checked labels; np.max of an empty array raises
\* ValueError; with no label mode the variable is never assigned
CalcNumClasses(labels, label_mode) ==
  LET got(n) == [err |-> NoError, num_classes |-> n]
  IN CASE label_mode = "binary" -> got(2)
       [] label_mode \in {"int", "categorical"} ->
            IF Entries1(labels) = {}
              THEN [err |-> ValueError("np.max of empty labels"), num_classes |-> Unbound]
              ELSE got(SetMax(Entries1(labels)) + 1)
       [] label_mode = "multi_class" -> got(Width(labels))
       [] label_mode = "multi_label" -> got(Width(labels) + 1)
       [] OTHER -> got(Unbound)

(***************************************************************************)
(* Datasets: a declared pipeline (its stages in order) over a path list.   *)
(***************************************************************************)
Stage(op, buffer_size, seed) == [op |-> op, buffer_size |-> buffer_size, seed |-> seed]

\* paths_and_labels_to_dataset: from_tensor_slices, map(load_image), and the
\* zip with the label dataset when there is a label mode
paths_and_labels_to_dataset(image_paths, num_channels, labels, label_mode, num_classes) ==
  [source |-> image_paths,
   labels |-> labels,
   has_labels |-> label_mode # "None",
   num_classes |-> num_classes,
   num_channels |-> num_channels,
   stages |-> <<Stage("from_tensor_slices", 0, None), Stage("map_load_image", 0, None)>>
              \o (IF label_mode # "None" THEN <<Stage("zip_labels", 0, None)>> ELSE <<>>),
   file_paths |-> <<>>]

AddStages(ds, stages) == [ds EXCEPT !.stages = ds.stages \o stages]

\* a pipeline that batches before it shuffles
ShuffledPipeline_BatchFirst(ds, batch_size, shuffle, seed) ==
  AddStages(ds,
    <<Stage("prefetch", 0, None)>>
    \o (IF batch_size # None THEN <<Stage("batch", batch_size, None)>> ELSE <<>>)
    \o (IF shuffle
          THEN <<Stage("shuffle",
                       IF batch_size # None THEN batch_size * ShuffleFactor
                       ELSE DefaultShuffleBuffer, seed)>>
          ELSE <<>>))

\* prefetch, then shuffle and batch as declared for the single dataset and
\* for the training dataset of a 'both' request
ShuffledPipeline(ds, batch_size, shuffle, seed) ==
  AddStages(ds,
    <<Stage("prefetch", 0, None)>>
    \o (IF batch_size # None
          THEN (IF shuffle THEN <<Stage("shuffle", batch_size * ShuffleFactor, seed)>>
                ELSE <<>>)
               \o <<Stage("batch", batch_size, None)>>
          ELSE (IF shuffle THEN <<Stage("shuffle", DefaultShuffleBuffer, seed)>>
                ELSE <<>>)))

\* prefetch and batch as declared for the validation dataset of a 'both'
\* request (no shuffle stage is declared for it)
ValidationPipeline(ds, batch_size) ==
  AddStages(ds,
    <<Stage("prefetch", 0, None)>>
    \o (IF batch_size # None THEN <<Stage("batch", batch_size, None)>> ELSE <<>>))

\* a dataset that is handed back without the attribute being set
WithFilePaths_NotAttached(ds, image_paths) == ds

WithFilePaths(ds, image_paths) == [ds EXCEPT !.file_paths = image_paths]

\* the two splits of a 'both' request
BothSplit(image_paths, labels, validation_split) ==
  [train |-> get_training_or_validation_split(image_paths, labels,
                                              validation_split, "training"),
   val |-> get_training_or_validation_split(image_paths, labels,
                                            validation_split, "validation")]

\* a split that answers every request with the training slice
SingleSplit_TrainingOnly(image_paths, labels, validation_split, subset) ==
  get_training_or_validation_split(image_paths, labels, validation_split, "training")

\* the split of any other request
SingleSplit(image_paths, labels, validation_split, subset) ==
  get_training_or_validation_split(image_paths, labels, validation_split, subset)

\* what a call leaves behind
NoOutcome ==
  [err |-> NoError, datasets |-> <<>>, label_mode |-> "", labels |-> LabelsNone,
   num_classes |-> Unbound, seed |-> None, rng |-> 0, subset |-> "",
   splits |-> <<>>]

\* the split and build region of paths_and_labels
Build(o, a, labels, label_mode, num_classes, num_channels, seed) ==
  IF a.subset = "both"
    THEN LET sp == BothSplit(a.image_paths, labels, a.validation_split)
             o2 == [o EXCEPT !.splits = <<"training", "validation">>]
         IN IF sp.train.image_paths = <<>>
              THEN [o2 EXCEPT !.err = ValueError("no_training_images")]
            ELSE IF sp.val.image_paths = <<>>
              THEN [o2 EXCEPT !.err = ValueError("no_validation_images")]
            ELSE IF num_classes = Unbound
              THEN [o2 EXCEPT !.err = UnboundLocalError("num_classes")]
            ELSE [o2 EXCEPT !.datasets =
                    <<WithFilePaths(
                        ShuffledPipeline(
                          paths_and_labels_to_dataset(sp.train.image_paths, num_channels,
                            sp.train.labels, label_mode, num_classes),
                          a.batch_size, a.shuffle, seed),
                        sp.train.image_paths),
                      WithFilePaths(
                        ValidationPipeline(
                          paths_and_labels_to_dataset(sp.val.image_paths, num_channels,
                            sp.val.labels, label_mode, num_classes),
                          a.batch_size),
                        sp.val.image_paths)>>]
    ELSE LET sp == SingleSplit(a.image_paths, labels, a.validation_split, a.subset)
             o2 == [o EXCEPT !.splits = <<a.subset>>]
         IN IF sp.image_paths = <<>>
              THEN [o2 EXCEPT !.err = ValueError("no_images")]
            ELSE IF num_classes = Unbound
              THEN [o2 EXCEPT !.err = UnboundLocalError("num_classes")]
            ELSE [o2 EXCEPT !.datasets =
                    <<WithFilePaths(
                        ShuffledPipeline(
                          paths_and_labels_to_dataset(sp.image_paths, num_channels,
                            sp.labels, label_mode, num_classes),
                          a.batch_size, a.shuffle, seed),
                        sp.image_paths)>>]

\* image_dataset_from_paths_and_labels(a): r is the value np.random.randint
\* yields if it is called
PathsAndLabels(a, r, strict) ==
  LET o0 == [NoOutcome EXCEPT !.subset = a.subset, !.seed = a.seed]
  IN IF a.labels.kind \notin {"none", "list"}
       THEN [o0 EXCEPT !.err = ValueError("labels")]
     ELSE IF a.label_mode \notin AcceptedLabelModes
       THEN [o0 EXCEPT !.err = ValueError("label_mode")]
     ELSE
       LET none == a.labels.kind = "none" \/ a.label_mode = "None"
           labels == IF none THEN LabelsNone ELSE a.labels
           label_mode == IF none THEN "None" ELSE a.label_mode
           num_channels == NumChannels(a.color_mode)
           o1 == [o0 EXCEPT !.label_mode = label_mode, !.labels = labels]
       IN IF num_channels = 0
            THEN [o1 EXCEPT !.err = ValueError("color_mode")]
          ELSE IF ~check_validation_split_arg(a.validation_split, a.subset,
                                              a.shuffle, a.seed, strict)
            THEN [o1 EXCEPT !.err = ValueError("validation_split")]
          ELSE
            LET seed == IF a.seed = None THEN r ELSE a.seed
                o2 == [o1 EXCEPT !.seed = seed,
                                 !.rng = IF a.seed = None THEN 1 ELSE 0]
                chk == CheckLabels(labels, label_mode)
                nc == CalcNumClasses(chk.labels, label_mode)
                o3 == [o2 EXCEPT !.labels = chk.labels, !.num_classes = nc.num_classes]
            IN IF chk.err # NoError THEN [o2 EXCEPT !.err = chk.err]
               ELSE IF nc.err # NoError THEN [o3 EXCEPT !.err = nc.err]
               ELSE Build(o3, a, chk.labels, label_mode, nc.num_classes,
                          num_channels, seed)

(***************************************************************************)
(* The other entry points.                                                 *)
(***************************************************************************)
\* a directory entry that indexes the directory before it checks its
\* arguments
Directory_IndexFirst(a, r) ==
  LET stop(site) == [err |-> ValueError(site), loc |-> a, rng |-> 0,
                     io |-> <<"index_directory">>]
      seed == IF a.seed = None THEN r ELSE a.seed
      none == a.labels.kind = "none" \/ a.label_mode = "None"
      labels == IF none THEN LabelsNone ELSE a.labels
      label_mode == IF none THEN "None" ELSE a.label_mode
      idx == index_directory(a.image_paths, a.classes, labels, label_mode,
                             a.shuffle, seed)
  IN IF a.labels.kind \notin {"inferred", "none", "list"} THEN stop("labels")
     ELSE IF a.labels.kind = "list" /\ a.class_names THEN stop("class_names")
     ELSE IF a.label_mode \notin DirectoryLabelModes THEN stop("label_mode")
     ELSE [err |-> NoError,
           loc |-> [a EXCEPT !.image_paths = idx.image_paths, !.labels = idx.labels,
                             !.label_mode = label_mode, !.seed = seed],
           rng |-> IF a.seed = None THEN 1 ELSE 0,
           io |-> <<"index_directory">>]

\* a directory entry that indexes with the seed it generated but hands the
\* caller's seed argument on to paths_and_labels
Directory_SeedNotHandedOn(a, r) ==
  LET stop(site) == [err |-> ValueError(site), loc |-> a, rng |-> 0, io |-> <<>>]
      none == a.labels.kind = "none" \/ a.label_mode = "None"
      labels == IF none THEN LabelsNone ELSE a.labels
      label_mode == IF none THEN "None" ELSE a.label_mode
      seed == IF a.seed = None THEN r ELSE a.seed
      idx == index_directory(a.image_paths, a.classes, labels, label_mode,
                             a.shuffle, seed)
  IN IF a.labels.kind \notin {"inferred", "none", "list"} THEN stop("labels")
     ELSE IF a.labels.kind = "list" /\ a.class_names THEN stop("class_names")
     ELSE IF a.label_mode \notin DirectoryLabelModes THEN stop("label_mode")
     ELSE [err |-> NoError,
           loc |-> [a EXCEPT !.image_paths = idx.image_paths, !.labels = idx.labels,
                             !.label_mode = label_mode],
           rng |-> IF a.seed = None THEN 1 ELSE 0,
           io |-> <<"index_directory">>]

\* image_dataset_from_directory up to the call of paths_and_labels: the
\* checks, the seed, the directory index.  r is the value np.random.randint
\* yields if it is called.
Directory(a, r) ==
  LET stop(site) == [err |-> ValueError(site), loc |-> a, rng |-> 0, io |-> <<>>]
  IN IF a.labels.kind \notin {"inferred", "none"} /\ a.labels.kind # "list"
       THEN stop("labels")
     ELSE IF a.labels.kind \notin {"inferred", "none"} /\ a.class_names
       THEN stop("class_names")
     ELSE IF a.label_mode \notin DirectoryLabelModes
       THEN stop("label_mode")
     ELSE
       LET none == a.labels.kind = "none" \/ a.label_mode = "None"
           labels == IF none THEN LabelsNone ELSE a.labels
           label_mode == IF none THEN "None" ELSE a.label_mode
           seed == IF a.seed = None THEN r ELSE a.seed
           idx == index_directory(a.image_paths, a.classes, labels, label_mode,
                                  a.shuffle, seed)
       IN [err |-> NoError,
           loc |-> [a EXCEPT !.image_paths = idx.image_paths, !.labels = idx.labels,
                             !.label_mode = label_mode, !.seed = seed],
           rng |-> IF a.seed = None THEN 1 ELSE 0,
           io |-> <<"index_directory">>]

\* image_dataset_from_dataframe up to the call of paths_and_labels
Dataframe(a) ==
  IF ~a.path_col_ok THEN [err |-> ValueError("path_col"), loc |-> a]
  ELSE IF ~a.label_col_ok THEN [err |-> ValueError("label_col"), loc |-> a]
  ELSE [err |-> NoError, loc |-> a]

(***************************************************************************)
(* State.                                                                  *)
(*   pc     the function about to run, or "returned" / "raised" / "loaded" *)
(*   call   the arguments of the top-level call                            *)
(*   loc    the arguments as handed to the function about to run           *)
(*   io     the file I/O of the call so far, in order                      *)
(*   rng    how often np.random.randint was called during the call         *)
(*   out    what the call left behind (error or datasets)                  *)
(*   calls  how many calls were made                                       *)
(*   prev   call and out of the call before this one                       *)
(*   dec    the arguments of load_image                                    *)
(*   img    what load_image returned                                       *)
(***************************************************************************)
VARIABLES pc, call, loc, io, rng, out, calls, prev, dec, img

vars == <<pc, call, loc, io, rng, out, calls, prev, dec, img>>

Args(e, n, l, c, m, cn, pco, lco, cm, b, sh, sd, v, sub) ==
  [entry |-> e, image_paths |-> Corpus(n), labels |-> l, classes |-> c,
   label_mode |-> m, class_names |-> cn, path_col_ok |-> pco, label_col_ok |-> lco,
   color_mode |-> cm, batch_size |-> b, shuffle |-> sh, seed |-> sd,
   validation_split |-> v, subset |-> sub]

\* files directly under the directory / one class sub-directory
OneClass(n) == [i \in 1..n |-> 0]

\* two class sub-directories
TwoClasses(n) == [i \in 1..n |-> IF 2 * i <= n + 1 THEN 0 ELSE 1]

\* the label values an entry point can be handed for n samples
LabelChoices(entry, n) ==
  LabelLists(n)
  \cup (IF entry \in {"directory", "paths_and_labels"} THEN {LabelsNone, LabelsScalar} ELSE {})
  \cup (IF entry = "directory" THEN {LabelsInferred} ELSE {})

\* calls that vary the labels and the label mode, the rest at its default
LabelCalls ==
  UNION {UNION {UNION {
    {Args(e, n, l, c, m, FALSE, TRUE, TRUE, "rgb", DefaultBatchSize, TRUE, 1,
          NoSplit, "None") :
       c \in IF l.kind = "inferred" THEN ClassLayouts(n) ELSE {OneClass(n)},
       m \in LabelModes} :
    l \in LabelChoices(e, n)} : n \in 0..MaxRows} : e \in Entries}

\* labelled and unlabelled requests of an entry point for n samples
LabelPairs(e, n) ==
  {<<AlternatingLabels(n), "int">>}
  \cup (IF e \in {"directory", "paths_and_labels"} THEN {<<LabelsNone, "None">>}
        ELSE {<<AlternatingLabels(n), "None">>})
  \cup (IF e = "directory" THEN {<<LabelsInferred, "int">>} ELSE {})

\* calls that vary the corpus size, the split, the seed and shuffle
SplitCalls ==
  UNION {UNION {
    {Args(e, n, lm[1], TwoClasses(n), lm[2], FALSE, TRUE, TRUE, "rgb",
          DefaultBatchSize, sh, sd, v, sub) :
       lm \in LabelPairs(e, n),
       sh \in BOOLEAN,
       sd \in {None} \cup Seeds,
       v \in {NoSplit} \cup Fractions,
       sub \in Subsets} : n \in 0..MaxPaths} : e \in Entries}

\* calls that vary the declared pipeline: batch size, shuffle, seed, subset
PipelineCalls ==
  UNION {
    {Args(e, MaxRows, lm[1], TwoClasses(MaxRows), lm[2], FALSE, TRUE, TRUE, "rgb",
          b, sh, sd, vs[1], vs[2]) :
       lm \in LabelPairs(e, MaxRows),
       b \in {None, 2, DefaultBatchSize},
       sh \in BOOLEAN,
       sd \in {None, 1},
       vs \in {<<NoSplit, "None">>, <<<<1, 2>>, "training">>, <<<<1, 2>>, "both">>}} :
    e \in Entries}

\* calls that vary the remaining configuration
ConfigCalls ==
  UNION {
    {Args(e, MaxRows, l, TwoClasses(MaxRows), m, cn, pco, lco, cm, DefaultBatchSize,
          TRUE, 1, NoSplit, "None") :
       l \in {AlternatingLabels(MaxRows)}
             \cup (IF e \in {"directory", "paths_and_labels"} THEN {LabelsScalar} ELSE {})
             \cup (IF e = "directory" THEN {LabelsInferred} ELSE {}),
       m \in {"int", "custom"},
       cn \in IF e = "directory" THEN BOOLEAN ELSE {FALSE},
       pco \in IF e \in {"csv", "dataframe"} THEN BOOLEAN ELSE {TRUE},
       lco \in IF e \in {"csv", "dataframe"} THEN BOOLEAN ELSE {TRUE},
       cm \in ColorModes} : e \in Entries}

Calls == LabelCalls \cup SplitCalls \cup PipelineCalls \cup ConfigCalls

NoImage == Failed("not loaded")

DecodeArgs ==
  UNION {[path : {p}, file : Files(Branch(p)), image_size : ImageSizes,
          num_channels : ChannelCounts, crop_to_aspect_ratio : BOOLEAN,
          mode : ExecModes] : p \in Paths}

NoDecode == [path |-> <<>>, file |-> [frames |-> 1, ndim |-> 3, height |-> 1,
             width |-> 1, channels |-> 1], image_size |-> <<1, 1>>,
             num_channels |-> 1, crop_to_aspect_ratio |-> FALSE, mode |-> "graph"]

NoCall == Args("", 0, LabelsNone, <<>>, "None", FALSE, TRUE, TRUE, "rgb", None, FALSE,
               None, NoSplit, "None")

NoPrev == [call |-> NoCall, out |-> NoOutcome, pc |-> ""]

InitCall ==
  /\ call \in Calls
  /\ pc = call.entry
  /\ loc = call
  /\ io = <<>>
  /\ rng = 0
  /\ out = NoOutcome
  /\ calls = 1
  /\ prev = NoPrev
  /\ dec = NoDecode
  /\ img = NoImage

InitLoad ==
  /\ pc = "load_image"
  /\ dec \in DecodeArgs
  /\ img = NoImage
  /\ call = NoCall
  /\ loc = NoCall
  /\ io = <<>>
  /\ rng = 0
  /\ out = NoOutcome
  /\ calls = 0
  /\ prev = NoPrev

Init == InitCall \/ InitLoad

Raise(err) ==
  /\ pc' = "raised"
  /\ out' = [NoOutcome EXCEPT !.err = err, !.subset = loc.subset, !.seed = loc.seed]

ImageDatasetFromDirectory ==
  /\ pc = "directory"
  /\ \E r \in Seeds :
       LET d == Directory(loc, r)
       IN /\ io' = io \o d.io
          /\ rng' = rng + d.rng
          /\ IF d.err # NoError
               THEN Raise(d.err) /\ UNCHANGED loc
               ELSE pc' = "paths_and_labels" /\ loc' = d.loc /\ UNCHANGED out
  /\ UNCHANGED <<call, calls, prev, dec, img>>

ImageDatasetFromCsv ==
  /\ pc = "csv"
  /\ io' = Append(io, "read_csv")
  /\ pc' = "dataframe"
  /\ UNCHANGED <<call, loc, rng, out, calls, prev, dec, img>>

ImageDatasetFromDataframe ==
  /\ pc = "dataframe"
  /\ LET d == Dataframe(loc)
     IN IF d.err # NoError
          THEN Raise(d.err) /\ UNCHANGED loc
          ELSE pc' = "paths_and_labels" /\ loc' = d.loc /\ UNCHANGED out
  /\ UNCHANGED <<call, io, rng, calls, prev, dec, img>>

ImageDatasetFromPathsAndLabels ==
  /\ pc = "paths_and_labels"
  /\ \E r \in Seeds, strict \in BOOLEAN :
       /\ out' = PathsAndLabels(loc, r, strict)
       /\ rng' = rng + out'.rng
       /\ pc' = IF out'.err = NoError THEN "returned" ELSE "raised"
  /\ UNCHANGED <<call, loc, io, calls, prev, dec, img>>

\* the caller makes the same call again; a 'training' or 'validation'
\* request may ask for the other subset this time
CallAgain ==
  /\ pc \in {"returned", "raised"}
  /\ calls < MaxCalls
  /\ \E sub \in IF call.subset \in {"training", "validation"}
                  THEN {"training", "validation"} ELSE {call.subset} :
       /\ call' = [call EXCEPT !.subset = sub]
       /\ loc' = call'
  /\ pc' = call.entry
  /\ prev' = [call |-> call, out |-> out, pc |-> pc]
  /\ calls' = calls + 1
  /\ io' = <<>>
  /\ rng' = 0
  /\ out' = NoOutcome
  /\ UNCHANGED <<dec, img>>

LoadImage ==
  /\ pc = "load_image"
  /\ img' = load_image(dec.path, dec.file, dec.image_size, dec.num_channels,
                       dec.crop_to_aspect_ratio, dec.mode)
  /\ pc' = "loaded"
  /\ UNCHANGED <<call, loc, io, rng, out, calls, prev, dec>>

Next ==
  \/ ImageDatasetFromDirectory
  \/ ImageDatasetFromCsv
  \/ ImageDatasetFromDataframe
  \/ ImageDatasetFromPathsAndLabels
  \/ CallAgain
  \/ LoadImage

Spec == Init /\ [][Next]_vars

(***************************************************************************)
(* Properties.                                                             *)
(***************************************************************************)
Finished == pc \in {"returned", "raised"}

\* the label modes the design document enumerates
DocumentedLabelModes == {"int", "categorical", "binary", "multi_class",
                         "multi_label", "None"}

InvalidArgument(err) == err.type = "ValueError" /\ err.site \in InvalidArgumentSites

EmptyDataset(err) == err.type = "ValueError" /\ err.site \in EmptyDatasetSites

\* the requested subset of n samples is not empty
SubsetNonEmpty(a) ==
  LET n == Len(a.image_paths)
      k == NumVal(n, a.validation_split)
  IN CASE a.subset = "None" -> n > 0
       [] a.subset = "training" -> n - k > 0
       [] a.subset = "validation" -> k > 0
       [] OTHER -> n - k > 0 /\ k > 0

\* arguments that are valid apart from the labels and the label mode: a
\* supported color mode, well-typed columns, no class_names, a consistent
\* split request with a seed, and a non-empty requested subset
OtherwiseValid(a) ==
  /\ a.color_mode \in {"rgb", "rgba", "grayscale"}
  /\ a.path_col_ok /\ a.label_col_ok /\ ~a.class_names
  /\ (a.validation_split = NoSplit) = (a.subset = "None")
  /\ (a.validation_split # NoSplit => a.seed # None)
  /\ SubsetNonEmpty(a)

\* C1: a paths_and_labels call with a non-empty path list and otherwise valid
\* arguments in which labels is absent or label_mode is absent completes
\* without error and returns a dataset without a label component.
C1_NoLabelCallCompletes ==
  (/\ Finished
   /\ call.entry = "paths_and_labels"
   /\ call.labels.kind \in {"none", "list"}
   /\ call.label_mode \in DocumentedLabelModes
   /\ (call.labels.kind = "none" \/ call.label_mode = "None")
   /\ OtherwiseValid(call))
  => /\ pc = "returned"
     /\ out.label_mode = "None"
     /\ out.labels.kind = "none"
     /\ out.datasets # <<>>
     /\ \A i \in DOMAIN out.datasets : ~out.datasets[i].has_labels

\* C2: at every entry point a label_mode is rejected with InvalidArgument
\* exactly when it is outside {int, categorical, binary, multi_class,
\* multi_label, none}.
C2_LabelModeRejectedIffUndocumented ==
  Finished =>
    /\ out.err = ValueError("label_mode") => call.label_mode \notin DocumentedLabelModes
    /\ (/\ call.label_mode \notin DocumentedLabelModes
        /\ call.labels.kind \in {"none", "list", "inferred"}
        /\ call.path_col_ok /\ call.label_col_ok /\ ~call.class_names)
       => out.err = ValueError("label_mode")

\* a (label_mode, labels) pair the design document calls valid
ValidPair(label_mode, labels) ==
  /\ labels.kind = "list"
  /\ CASE label_mode \in {"int", "categorical"} ->
            ndim(labels) = 1 /\ labels.val # <<>>
       [] label_mode = "binary" ->
            ndim(labels) = 1 /\ Cardinality(Entries1(labels)) = 2
       [] label_mode = "multi_label" ->
            ndim(labels) = 2 /\ Width(labels) >= 2
       [] label_mode = "multi_class" ->
            ndim(labels) = 2 /\ Width(labels) >= 2 /\ MaxRowSum(labels) <= 1
       [] OTHER -> FALSE

\* the class count of the derivation table
TableClassCount(label_mode, labels) ==
  CASE label_mode = "binary" -> 2
    [] label_mode \in {"int", "categorical"} -> SetMax(Entries1(labels)) + 1
    [] label_mode = "multi_class" -> Width(labels)
    [] OTHER -> Width(labels) + 1

\* the arguments were handed to paths_and_labels (no entry point raised
\* before the call)
ReachedPathsAndLabels ==
  /\ Finished
  /\ call.labels.kind \in {"list", "inferred"}
  /\ call.label_mode \in DocumentedLabelModes
  /\ OtherwiseValid(call)

\* C3: for every valid (label_mode, labels) pair the class count computed is
\* 2 for binary, max + 1 for int and categorical, the row width for
\* multi_class and the row width + 1 for multi_label.
C3_ClassCountTable ==
  (ReachedPathsAndLabels /\ ValidPair(loc.label_mode, loc.labels))
  => out.num_classes = TableClassCount(loc.label_mode, loc.labels)

\* C4: in binary mode, labels with exactly two distinct values are
\* normalised to floats drawn from {0.0, 1.0} of shape samples x 1, and any
\* other number of distinct values fails with InvalidArgument.
C4_BinaryNormalised ==
  (ReachedPathsAndLabels /\ loc.label_mode = "binary" /\ loc.labels.kind = "list")
  => IF Cardinality(Entries1(loc.labels)) = 2
       THEN /\ pc = "returned"
            /\ out.labels.dtype = "float"
            /\ out.labels.rank = 2
            /\ \A i \in DOMAIN out.labels.val : Len(out.labels.val[i]) = 1
            /\ Entries1(out.labels) \subseteq {0, 1}
       ELSE pc = "raised" /\ InvalidArgument(out.err)

\* C5: in multi_class mode with a rank-2 0/1 matrix of width >= 2 the call
\* fails with InvalidArgument when some row sums to more than 1 and raises
\* no InvalidArgument when every row sums to at most 1.
C5_MultiClassRowSums ==
  (/\ ReachedPathsAndLabels
   /\ loc.label_mode = "multi_class"
   /\ ndim(loc.labels) = 2
   /\ Width(loc.labels) >= 2)
  => (InvalidArgument(out.err) <=> MaxRowSum(loc.labels) > 1)

\* the path list each returned dataset draws from
Partitions(o) == [i \in DOMAIN o.datasets |-> o.datasets[i].source]

Disjoint(p, q) == Range(p) \cap Range(q) = {}

Covers(p, q, corpus) == Range(p) \cup Range(q) = Range(corpus)

\* C6: with the same seed and fraction the 'training' and the 'validation'
\* split select disjoint sets of samples whose union is the whole corpus (in
\* one 'both' request and across two requests), and repeating a request
\* yields the same partitions.
C6_SplitPartition ==
  /\ (pc = "returned" /\ call.subset = "both")
     => /\ Disjoint(out.datasets[1].source, out.datasets[2].source)
        /\ Covers(out.datasets[1].source, out.datasets[2].source, call.image_paths)
  /\ (/\ pc = "returned" /\ prev.pc = "returned"
      /\ call.validation_split # NoSplit
      /\ out.seed = prev.out.seed)
     => IF prev.call.subset = call.subset
          THEN Partitions(out) = Partitions(prev.out)
          ELSE /\ Disjoint(out.datasets[1].source, prev.out.datasets[1].source)
               /\ Covers(out.datasets[1].source, prev.out.datasets[1].source,
                         call.image_paths)

\* a 'validation' request answered after a 'training' request on the same
\* shuffled directory with the same seed, both non-empty
C6_Witness ==
  /\ pc = "returned" /\ prev.pc = "returned"
  /\ call.entry = "directory" /\ call.shuffle
  /\ call.seed # None
  /\ prev.call.subset = "training" /\ call.subset = "validation"
  /\ Len(call.image_paths) = MaxPaths
  /\ out.datasets[1].source # <<>>
  /\ prev.out.datasets[1].source # <<>>

\* C7: at every entry point the split slices the corpus as ordered by the
\* permutation the seed determines, not the caller's order.
C7_SplitOfSeededPermutation ==
  (/\ pc = "returned"
   /\ call.shuffle
   /\ call.validation_split # NoSplit
   /\ call.subset = "training")
  => out.datasets[1].source
       = SplitSeq(Shuffle(call.image_paths, out.seed), call.validation_split, "training")

\* C8: with subset='both' the split is taken for 'training' and for
\* 'validation'; an empty list fails with EmptyDataset before any dataset is
\* built, otherwise two non-empty datasets (training, validation) come back.
C8_BothReturnsTwoDatasets ==
  (Finished /\ out.splits = <<"training", "validation">>)
  => LET tr == SplitSeq(loc.image_paths, loc.validation_split, "training")
         va == SplitSeq(loc.image_paths, loc.validation_split, "validation")
     IN IF tr = <<>> \/ va = <<>>
          THEN pc = "raised" /\ EmptyDataset(out.err) /\ out.datasets = <<>>
          ELSE /\ pc = "returned"
               /\ Len(out.datasets) = 2
               /\ out.datasets[1].source = tr /\ out.datasets[2].source = va

\* the checks image_dataset_from_directory makes itself, before it indexes
DirectoryOwnCheck ==
  \/ out.err.site \in {"labels", "class_names"}
  \/ out.err.site = "label_mode" /\ call.label_mode \notin DirectoryLabelModes

\* C9 as stated: every InvalidArgument failure is raised before any file I/O
\* of the call.
C9_InvalidArgumentBeforeAnyIO ==
  (pc = "raised" /\ InvalidArgument(out.err)) => io = <<>>

\* C9 as amended: an InvalidArgument failure is raised before any file I/O
\* in paths_and_labels and dataframe calls; in a directory call only the
\* entry's own checks (labels type, class_names, its label_mode set) precede
\* the directory index and every other one follows it; in a csv call every
\* one follows the reading of the CSV.
C9_InvalidArgumentVersusIO ==
  (pc = "raised" /\ InvalidArgument(out.err))
  => CASE call.entry \in {"paths_and_labels", "dataframe"} -> io = <<>>
       [] call.entry = "csv" -> io = <<"read_csv">>
       [] OTHER -> io = IF DirectoryOwnCheck THEN <<>> ELSE <<"index_directory">>

\* a directory call rejected by the entry's own label_mode check, nothing
\* indexed yet
C9_Witness ==
  /\ pc = "raised"
  /\ call.entry = "directory"
  /\ out.err = ValueError("label_mode")
  /\ call.label_mode \notin DirectoryLabelModes
  /\ io = <<>>

\* C10: load_image either fails or returns a tensor of shape exactly
\* (image_size[0], image_size[1], num_channels).
C10_LoadImageShape ==
  pc = "loaded"
  => \/ ~img.ok
     \/ img.shape = <<dec.image_size[1], dec.image_size[2], dec.num_channels>>

\* the file of a load_image call can be decoded by the branch the path selects
Decodable == Decoded(dec.path, dec.file, dec.num_channels).ok

\* C11: with crop_to_aspect_ratio set, for every source size and every target
\* size (sources smaller than the target included) load_image returns a
\* tensor of the target height and width that contains no padding: the
\* centred crop of the source, resized.
C11_CropHasNoPadding ==
  (pc = "loaded" /\ dec.crop_to_aspect_ratio /\ Decodable)
  => /\ img.ok
     /\ ~img.padded
     /\ <<img.shape[1], img.shape[2]>> = dec.image_size

\* the path lists the datasets of the call are to draw from: the slices of
\* the list handed to paths_and_labels that the request names
RequestedSlices ==
  IF loc.subset = "both"
    THEN <<SplitSeq(loc.image_paths, loc.validation_split, "training"),
           SplitSeq(loc.image_paths, loc.validation_split, "validation")>>
    ELSE <<SplitSeq(loc.image_paths, loc.validation_split, loc.subset)>>

\* C12: every dataset returned (the single one, and each of the two of a
\* 'both' split) carries as file_paths the ordered path list of exactly the
\* samples it draws from, so its length is the sample count before batching
\* and shuffling, whatever batch_size and shuffle are.
C12_FilePathsMatchSamples ==
  pc = "returned"
  => /\ Len(out.datasets) = Len(RequestedSlices)
     /\ \A i \in DOMAIN out.datasets :
          /\ out.datasets[i].file_paths = out.datasets[i].source
          /\ out.datasets[i].file_paths = RequestedSlices[i]

\* a shuffled 'both' request with a batch size larger than either split
C12_Witness ==
  /\ pc = "returned"
  /\ call.subset = "both" /\ call.shuffle
  /\ call.batch_size = DefaultBatchSize
  /\ Len(out.datasets) = 2
  /\ \A i \in 1..2 : /\ out.datasets[i].file_paths # <<>>
                      /\ Len(out.datasets[i].file_paths) < call.batch_size
  /\ \E i \in DOMAIN out.datasets[1].stages : out.datasets[1].stages[i].op = "shuffle"

\* the path of the load_image call matches '.*<token>.*'
PathMatches(token) == \E i \in DOMAIN dec.path : dec.path[i] = token

\* C13: load_image takes exactly one decode branch for every path, the first
\* that matches in the order .dcm (DICOM), .npz, .npy, else raster; a path
\* matching several patterns takes the earliest of them.
C13_FirstMatchBranch ==
  pc = "loaded"
  => /\ img.branch \in {"dicom", "npz", "npy", "raster"}
     /\ (img.branch = "dicom") = PathMatches(".dcm")
     /\ (img.branch = "npz") = (PathMatches(".npz") /\ ~PathMatches(".dcm"))
     /\ (img.branch = "npy")
          = (PathMatches(".npy") /\ ~PathMatches(".dcm") /\ ~PathMatches(".npz"))
     /\ (img.branch = "raster")
          = (~PathMatches(".dcm") /\ ~PathMatches(".npz") /\ ~PathMatches(".npy"))

\* a path holding '.npy' before '.dcm' was decoded as DICOM
C13_Witness ==
  /\ pc = "loaded"
  /\ dec.path = <<".npy", ".dcm">>
  /\ img.branch = "dicom"

\* the positions of the stages of a dataset that have one of the given ops
StagesOf(ds, ops) == {i \in DOMAIN ds.stages : ds.stages[i].op \in ops}

\* the seed the call works with: the caller's, or the generated one
SeedOfCall == IF call.seed # None THEN call.seed ELSE out.seed

\* the stages of ds are declared as the design describes for a dataset that
\* is (shuffled) or is not to be shuffled: one shuffle stage with the seed
\* and a buffer of 8 x batch_size (1024 without a batch size) after the
\* decode, zip and prefetch stages, or none; one batch stage after all of
\* them when there is a batch size, or none
StagesAsDesigned(ds, shuffled) ==
  LET sh == StagesOf(ds, {"shuffle"})
      bt == StagesOf(ds, {"batch"})
      pre == StagesOf(ds, {"from_tensor_slices", "map_load_image", "zip_labels", "prefetch"})
  IN /\ StagesOf(ds, {"map_load_image"}) # {} /\ StagesOf(ds, {"prefetch"}) # {}
     /\ Cardinality(sh) = IF shuffled THEN 1 ELSE 0
     /\ \A i \in sh :
          /\ ds.stages[i].seed = SeedOfCall
          /\ ds.stages[i].buffer_size
               = IF call.batch_size # None THEN 8 * call.batch_size ELSE 1024
          /\ \A j \in pre : j < i
     /\ Cardinality(bt) = IF call.batch_size # None THEN 1 ELSE 0
     /\ \A i \in bt :
          /\ ds.stages[i].buffer_size = call.batch_size
          /\ \A j \in pre \cup sh : j < i

\* C14 as stated: every dataset built, the training and the validation
\* dataset of a 'both' split included, has a shuffle stage (seeded, buffer
\* 8 x batch_size or 1024, after decode/zip/prefetch, before the batch
\* stage) when shuffle is requested and none when it is not.
C14_EveryDatasetShuffled ==
  pc = "returned"
  => \A i \in DOMAIN out.datasets : StagesAsDesigned(out.datasets[i], call.shuffle)

\* C14 as amended: the same holds for the single dataset and for the
\* training dataset of a 'both' split; the validation dataset of a 'both'
\* split never has a shuffle stage, only prefetch and, with a batch size,
\* the batch stage.
C14_ShuffleExceptValidationOfBoth ==
  pc = "returned"
  => \A i \in DOMAIN out.datasets :
       StagesAsDesigned(out.datasets[i],
                        call.shuffle /\ ~(call.subset = "both" /\ i = 2))

\* a shuffled, batched 'both' request came back: the training dataset
\* shuffles before it batches, the validation dataset only batches
C14_Witness ==
  /\ pc = "returned"
  /\ call.subset = "both" /\ call.shuffle /\ call.batch_size # None
  /\ Len(out.datasets) = 2
  /\ StagesOf(out.datasets[1], {"shuffle"}) # {}
  /\ StagesOf(out.datasets[2], {"shuffle"}) = {}
  /\ StagesOf(out.datasets[2], {"batch"}) # {}

\* every seed-consuming step of the call used the one seed out.seed: the
\* shuffle stages declared, and (directory entry) the permutation of the
\* indexed files, of which the partitions of the request are slices
OneSeedUsed ==
  /\ \A i \in DOMAIN out.datasets :
       \A j \in StagesOf(out.datasets[i], {"shuffle"}) :
         out.datasets[i].stages[j].seed = out.seed
  /\ call.entry = "directory"
     => /\ loc.image_paths = IF call.shuffle THEN Shuffle(call.image_paths, out.seed)
                             ELSE call.image_paths
        /\ \A i \in DOMAIN out.datasets : out.datasets[i].source = RequestedSlices[i]

\* C15 as stated: in every top-level call in which the caller omits the
\* seed, a seed is generated exactly once during the call, and every
\* seed-consuming step of the call uses that seed.
C15_SeedGeneratedExactlyOnce ==
  (Finished /\ call.seed = None) => (rng = 1 /\ OneSeedUsed)

\* C15 as amended: a seed is generated at most once in any call and never
\* when the caller supplies one; in every call without a caller's seed that
\* returns datasets it is generated exactly once and every seed-consuming
\* step of the call uses that seed; a call that fails may have generated
\* none.
C15_SeedGeneratedOnceWhenReturning ==
  /\ rng <= 1
  /\ call.seed # None => rng = 0
  /\ (pc = "returned" /\ call.seed = None) => (rng = 1 /\ OneSeedUsed)

\* a shuffled 'both' request on a directory without a caller's seed came
\* back: one seed generated, used by the index and by the shuffle stage
C15_Witness ==
  /\ pc = "returned"
  /\ call.entry = "directory" /\ call.seed = None
  /\ call.subset = "both" /\ call.shuffle
  /\ Len(call.image_paths) = MaxPaths
  /\ rng = 1
  /\ Len(out.datasets) = 2
  /\ StagesOf(out.datasets[1], {"shuffle"}) # {}
  /\ out.datasets[1].source \o out.datasets[2].source # call.image_paths

====
